---- MODULE Spec2Model ----
(***************************************************************************)
(* Model of image_converter.py: the palette helpers, the nearest-colour    *)
(* search, quantize_with_dither_strength (strength-scaled Floyd-Steinberg  *)
(* error diffusion) and the batch driver ImageConverter.process_images.    *)
(*                                                                         *)
(* Numbers.  The working buffer holds Python floats.  Every input channel  *)
(* is an integer 0..255, every diffusion weight is k/16 and the strengths  *)
(* drawn here are halves, so every value the scan computes is a dyadic     *)
(* rational; a working value v is held as the integer v * Scale.  Within   *)
(* the image sizes explored the doubles of the program hold these values   *)
(* exactly, so the scaled integers are the program's floats.  ExactDiv     *)
(* has no value should a division ever leave a remainder.                  *)
(***************************************************************************)
EXTENDS Integers, Sequences, FiniteSets, TLC

\* Largest number of pixels (width * height) of an explored image.
MaxPixels == 4

\* Largest number of directory entries of an explored source directory.
MaxFiles == 3

\* A pixel reached after d diffusion steps holds a multiple of 1/32^d
\* (1/16 from the weight, 1/2 from the strength) and d is below the pixel's
\* raster index; one more halving covers the residual of the last pixel.
Scale == 2 * 32^(MaxPixels - 1)

VARIABLES
    width, height,     \* img_rgb.size
    data,              \* list(img_rgb.getdata()): sequence of <<r, g, b>>
    palette_rgb,       \* the palette argument: sequence of <<r, g, b>>
    dither_strength,   \* the strength argument, a rational <<num, den>>
    pc,                \* "entry", "scan", "returned", "raised"
    buf,               \* working buffer, 0-based, 3 scaled channels a pixel
    out_idx,           \* index buffer, 0-based
    strength,          \* the clamped strength, a rational <<num, den>>
    x, y,              \* loop variables of the scan
    err,               \* "none" or the exception the call raised
    result,            \* the returned image: [size, palette, data] or NoImage
    acc,               \* buffer positions the last scan step read or wrote
    nwrites,           \* how often each out_idx cell has been assigned
    entries,           \* os.listdir(source_dir), in listing order
    pos,               \* position of process_images' loop in entries
    attempted,         \* positions whose preprocess_image call was started
    written,           \* positions whose output file was saved
    batch_pc,          \* "loop", "returned", "raised"
    lk_color,          \* arguments r, g, b of a lone nearest_palette_index call
    lk_palette,        \* its argument palette_rgb
    lk_idx,            \* its return value
    lk_pc              \* "call", "done"

qvars == <<width, height, data, palette_rgb, dither_strength, pc, buf,
           out_idx, strength, x, y, err, result, acc, nwrites>>
bvars == <<entries, pos, attempted, written, batch_pc>>
lvars == <<lk_color, lk_palette, lk_idx, lk_pc>>
vars == <<width, height, data, palette_rgb, dither_strength, pc, buf,
          out_idx, strength, x, y, err, result, acc, nwrites,
          entries, pos, attempted, written, batch_pc,
          lk_color, lk_palette, lk_idx, lk_pc>>

----------------------------------------------------------------------------
\* Rationals <<num, den>> with den > 0.

RatLeq(a, b) == a[1] * b[2] <= b[1] * a[2]
RatMin(a, b) == IF RatLeq(a, b) THEN a ELSE b
RatMax(a, b) == IF RatLeq(a, b) THEN b ELSE a

\* a / b for a division the program's floats carry out without rounding.
ExactDiv(a, b) == CHOOSE q \in {a \div b} : q * b = a

Max(a, b) == IF a >= b THEN a ELSE b
Min(a, b) == IF a <= b THEN a ELSE b

----------------------------------------------------------------------------
\* The module constants.

\* PALETTE: the 6-colour panel palette.
PALETTE == << <<0, 0, 0>>, <<255, 255, 255>>, <<0, 255, 0>>,
              <<0, 0, 255>>, <<255, 0, 0>>, <<255, 255, 0>> >>

\* The palette table size make_palette_flat pads to.
PaletteSlots == 256

----------------------------------------------------------------------------
\* make_palette_flat: the colours flattened, then [0, 0, 0] repeated
\* (256 - len) times; a Python list times a negative count is empty.
make_palette_flat(pal) ==
    LET n == Len(pal)
        pad == Max(0, PaletteSlots - n)
    IN  [k \in 1..(3 * n + 3 * pad) |->
            IF k <= 3 * n THEN pal[((k - 1) \div 3) + 1][((k - 1) % 3) + 1]
            ELSE 0]

\* clamp_u8 without its upper bound: max(0.0, value).
clamp_u8_no_upper(value) == Max(0, value)

\* clamp_u8 on a scaled value: max(0.0, min(255.0, value)).
clamp_u8(value) == Max(0, Min(255 * Scale, value))

----------------------------------------------------------------------------
\* Squared distances.  dr * dr + dg * dg + db * db of scaled channels does
\* not fit TLC's 32-bit integers, so a distance is held exactly
\* as three limbs <<high, mid, low>> in base LimbBase.

LimbBase == 2^15

Abs(v) == IF v < 0 THEN 0 - v ELSE v

\* d * d as limbs.
Square(d) ==
    LET a == Abs(d) \div LimbBase
        b == Abs(d) % LimbBase
        t0 == b * b
        t1 == 2 * a * b + (t0 \div LimbBase)
    IN  << a * a + (t1 \div LimbBase), t1 % LimbBase, t0 % LimbBase >>

\* p + q + r as limbs.
LimbSum(p, q, r) ==
    LET t0 == p[3] + q[3] + r[3]
        t1 == p[2] + q[2] + r[2] + (t0 \div LimbBase)
    IN  << p[1] + q[1] + r[1] + (t1 \div LimbBase), t1 % LimbBase, t0 % LimbBase >>

\* float("inf")
Inf == << -1 >>

\* dist < best_dist
DistLess(dist, best_dist) ==
    \/ best_dist = Inf
    \/ /\ best_dist # Inf
       /\ \/ dist[1] < best_dist[1]
          \/ dist[1] = best_dist[1] /\ dist[2] < best_dist[2]
          \/ dist[1] = best_dist[1] /\ dist[2] = best_dist[2] /\ dist[3] < best_dist[3]

\* dr * dr + dg * dg + db * db for the scaled colour (r, g, b) and the
\* palette entry p.
Dist(r, g, b, p) ==
    LimbSum(Square(r - p[1] * Scale), Square(g - p[2] * Scale),
            Square(b - p[3] * Scale))

\* The loop body comparing with <=, so that the last minimal entry wins.
NearestBodyLastWins(r, g, b, pal, i, best) ==
    LET dist == Dist(r, g, b, pal[i + 1])
    IN  IF ~DistLess(best[2], dist) THEN <<i, dist>> ELSE best

\* One iteration of the for loop of nearest_palette_index at 0-based entry
\* i, on best = <<best_idx, best_dist>>.
NearestBody(r, g, b, pal, i, best) ==
    LET dist == Dist(r, g, b, pal[i + 1])
    IN  IF DistLess(dist, best[2]) THEN <<i, dist>> ELSE best

RECURSIVE NearestLoop(_, _, _, _, _, _, _)
\* The iterations lo .. hi-1 of the for loop, in order, from best.  The
\* range is split in halves, and the first half is tested (best_idx is never
\* negative) before the second starts, only so that TLC evaluates a long
\* palette in loop order without nesting one iteration in the next.
NearestLoop(r, g, b, pal, lo, hi, best) ==
    IF lo >= hi THEN best
    ELSE IF hi = lo + 1 THEN NearestBody(r, g, b, pal, lo, best)
    ELSE LET mid == (lo + hi) \div 2
             first == NearestLoop(r, g, b, pal, lo, mid, best)
         IN  IF first[1] >= 0 THEN NearestLoop(r, g, b, pal, mid, hi, first)
             ELSE first

nearest_palette_index(r, g, b, pal) ==
    NearestLoop(r, g, b, pal, 0, Len(pal), <<0, Inf>>)[1]

----------------------------------------------------------------------------
\* Inputs explored.

InputColors == { <<10, 10, 10>>, <<250, 250, 250>>, <<200, 120, 40>> }

BlackWhite == << <<0, 0, 0>>, <<255, 255, 255>> >>
\* Red and green are equidistant from every grey; entries 1 and 3 are equal.
RedGreenRed == << <<255, 0, 0>>, <<0, 255, 0>>, <<255, 0, 0>> >>
EmptyPalette == << >>
\* 257 entries, one more than the palette table holds.
OversizePalette == [i \in 1..(PaletteSlots + 1) |->
                       << (i * 37) % 256, (i * 101) % 256, 255 - ((i - 1) % 256) >>]

\* Palettes of 1..256 entries, and the two kinds section 4.1 rules out.
UsablePalettes == { PALETTE, BlackWhite, RedGreenRed }
InvalidPalettes == { EmptyPalette, OversizePalette }

Strengths == { <<-1, 2>>, <<0, 1>>, <<1, 2>>, <<1, 1>>, <<3, 2>> }

Shapes == { s \in (0..MaxPixels) \X (0..MaxPixels) : s[1] * s[2] <= MaxPixels }

\* The images of every shape whose pixels are drawn from cols.
Images(cols) ==
    UNION { { [size |-> s, data |-> d] : d \in [1..(s[1] * s[2]) -> cols] } : s \in Shapes }

\* Every image with every usable palette; the invalid palettes with the
\* images of a single colour.
Inputs ==
    (Images(InputColors) \X UsablePalettes)
    \cup ((UNION { Images({c}) : c \in InputColors }) \X InvalidPalettes)

NoImage == [size |-> << -1, -1 >>, palette |-> << >>, data |-> << >>]

----------------------------------------------------------------------------
\* quantize_with_dither_strength.

px_count == width * height

\* add_error without the test x >= width: a target right of the last column
\* is addressed at (y * width + x) * 3, in the next row or past the buffer
\* (where the list assignment raises and nothing is stored).
add_error_no_column_check(st, ax, ay, er, eg, eb, fnum) ==
    IF ax < 0 \/ ay < 0 \/ ay >= height THEN st
    ELSE LET bi == (ay * width + ax) * 3
         IN  IF bi \notin DOMAIN st.buf
             THEN [buf |-> st.buf, acc |-> st.acc \cup {bi, bi + 1, bi + 2}]
             ELSE [buf |-> [st.buf EXCEPT
                              ![bi] = Max(0, Min(255 * Scale, @ + ExactDiv(er, 16) * fnum)),
                              ![bi + 1] = Max(0, Min(255 * Scale, @ + ExactDiv(eg, 16) * fnum)),
                              ![bi + 2] = Max(0, Min(255 * Scale, @ + ExactDiv(eb, 16) * fnum))],
                   acc |-> st.acc \cup {bi, bi + 1, bi + 2}]

\* add_error(x, y, er, eg, eb, factor) on the state st = [buf, acc]; factor
\* is fnum / 16.
add_error(st, ax, ay, er, eg, eb, fnum) ==
    IF ax < 0 \/ ay < 0 \/ ax >= width \/ ay >= height THEN st
    ELSE LET bi == (ay * width + ax) * 3
         IN  [buf |-> [st.buf EXCEPT
                         ![bi] = clamp_u8(@ + ExactDiv(er, 16) * fnum),
                         ![bi + 1] = clamp_u8(@ + ExactDiv(eg, 16) * fnum),
                         ![bi + 2] = clamp_u8(@ + ExactDiv(eb, 16) * fnum)],
              acc |-> st.acc \cup {bi, bi + 1, bi + 2}]

\* The clamp taking the magnitude of the strength: min(1.0, abs(s)).
ClampStrengthMagnitude(s) ==
    RatMin(<<1, 1>>, IF s[1] < 0 THEN <<0 - s[1], s[2]>> ELSE s)

\* The clamp without its upper bound: max(0.0, s).
ClampStrengthNoUpper(s) == RatMax(<<0, 1>>, s)

\* strength = max(0.0, min(1.0, float(dither_strength)))
ClampStrength(s) == RatMax(<<0, 1>>, RatMin(<<1, 1>>, s))

\* (old - new) * strength, old scaled, new a palette channel.
Residual(old, new, st) == ExactDiv((old - new * Scale) * st[1], st[2])

\* The four add_error calls with the 7/16 share sent to the left neighbour
\* (x - 1, y) instead of the right one.
DiffuseBackward(b, a, vx, vy, er, eg, eb) ==
    LET s0 == [buf |-> b, acc |-> a]
        s1 == add_error(s0, vx - 1, vy, er, eg, eb, 7)
        s2 == add_error(s1, vx - 1, vy + 1, er, eg, eb, 3)
        s3 == add_error(s2, vx, vy + 1, er, eg, eb, 5)
    IN  add_error(s3, vx + 1, vy + 1, er, eg, eb, 1)

\* The four add_error calls of one loop body.
Diffuse(b, a, vx, vy, er, eg, eb) ==
    LET s0 == [buf |-> b, acc |-> a]
        s1 == add_error(s0, vx + 1, vy, er, eg, eb, 7)
        s2 == add_error(s1, vx - 1, vy + 1, er, eg, eb, 3)
        s3 == add_error(s2, vx, vy + 1, er, eg, eb, 5)
    IN  add_error(s3, vx + 1, vy + 1, er, eg, eb, 1)

\* out_idx[pi] = pal_idx, storing the index one too high.
StoreIndexOneBased(o, pi, pal_idx) == [o EXCEPT ![pi] = pal_idx + 1]

\* out_idx[pi] = pal_idx
StoreIndex(o, pi, pal_idx) == [o EXCEPT ![pi] = pal_idx]

\* One body of the inner loop at (vx, vy), palette non-empty: the new
\* [buf, out, acc].
VisitStep(b, o, vx, vy, st) ==
    LET pi == vy * width + vx
        bi == pi * 3
        old_r == b[bi]
        old_g == b[bi + 1]
        old_b == b[bi + 2]
        pal_idx == nearest_palette_index(old_r, old_g, old_b, palette_rgb)
        new == palette_rgb[pal_idx + 1]
        o2 == StoreIndex(o, pi, pal_idx)
        a0 == {bi, bi + 1, bi + 2}
    IN  IF st[1] <= 0 THEN [buf |-> b, out |-> o2, acc |-> a0]
        ELSE LET d == Diffuse(b, a0, vx, vy,
                              Residual(old_r, new[1], st),
                              Residual(old_g, new[2], st),
                              Residual(old_b, new[3], st))
             IN  [buf |-> d.buf, out |-> o2, acc |-> d.acc]

RECURSIVE RunScan(_, _, _, _)
\* The two loops of lines 95-117 from raster index p on, with strength st:
\* the final out_idx.
RunScan(b, o, p, st) ==
    IF p >= px_count THEN o
    ELSE LET r == VisitStep(b, o, p % width, p \div width, st)
         IN  RunScan(r.buf, r.out, p + 1, st)

\* Lines 73-93: the buffers are allocated, the input copied, the strength
\* clamped.
Setup ==
    /\ pc = "entry"
    /\ buf' = [k \in 0..(px_count * 3 - 1) |-> data[(k \div 3) + 1][(k % 3) + 1] * Scale]
    /\ out_idx' = [p \in 0..(px_count - 1) |-> 0]
    /\ nwrites' = [p \in 0..(px_count - 1) |-> 0]
    /\ strength' = ClampStrength(dither_strength)
    /\ x' = 0
    /\ y' = 0
    /\ pc' = "scan"
    /\ UNCHANGED <<width, height, data, palette_rgb, dither_strength, err, result, acc>>
    /\ UNCHANGED <<bvars, lvars>>

\* One body of the inner loop (lines 97-117), the palette lookup succeeding.
Visit ==
    /\ pc = "scan"
    /\ y < height
    /\ x < width
    /\ Len(palette_rgb) > 0
    /\ LET r == VisitStep(buf, out_idx, x, y, strength)
       IN  /\ buf' = r.buf
           /\ out_idx' = r.out
           /\ acc' = r.acc
    /\ nwrites' = [nwrites EXCEPT ![y * width + x] = @ + 1]
    /\ x' = x + 1
    /\ UNCHANGED <<width, height, data, palette_rgb, dither_strength, pc,
                   strength, y, err, result>>
    /\ UNCHANGED <<bvars, lvars>>

\* The loop body with an empty palette: nearest_palette_index returns 0 and
\* palette_rgb[0] at line 104 raises IndexError.
VisitRaise ==
    /\ pc = "scan"
    /\ y < height
    /\ x < width
    /\ Len(palette_rgb) = 0
    /\ nearest_palette_index(buf[(y * width + x) * 3], buf[(y * width + x) * 3 + 1],
                             buf[(y * width + x) * 3 + 2], palette_rgb) = 0
    /\ acc' = {(y * width + x) * 3, (y * width + x) * 3 + 1, (y * width + x) * 3 + 2}
    /\ pc' = "raised"
    /\ err' = "IndexError"
    /\ UNCHANGED <<width, height, data, palette_rgb, dither_strength, buf,
                   out_idx, strength, x, y, result, nwrites>>
    /\ UNCHANGED <<bvars, lvars>>

\* The inner loop is exhausted: the outer loop takes the next row.
NextRow ==
    /\ pc = "scan"
    /\ y < height
    /\ x >= width
    /\ x' = 0
    /\ y' = y + 1
    /\ acc' = {}
    /\ UNCHANGED <<width, height, data, palette_rgb, dither_strength, pc, buf,
                   out_idx, strength, err, result, nwrites>>
    /\ UNCHANGED <<bvars, lvars>>

\* Lines 119-122: the indexed image is built and returned.
Finish ==
    /\ pc = "scan"
    /\ y >= height
    /\ pc' = "returned"
    /\ result' = [size |-> <<width, height>>,
                  palette |-> make_palette_flat(palette_rgb),
                  data |-> out_idx]
    /\ acc' = {}
    /\ UNCHANGED <<width, height, data, palette_rgb, dither_strength, buf,
                   out_idx, strength, x, y, err, nwrites>>
    /\ UNCHANGED <<bvars, lvars>>

\* Line 120 with a flat table longer than 256 colours: the imaging library
\* may refuse the table, and the call raises its ValueError.
FinishLibraryError ==
    /\ pc = "scan"
    /\ y >= height
    /\ Len(make_palette_flat(palette_rgb)) > 3 * PaletteSlots
    /\ pc' = "raised"
    /\ err' = "ValueError"
    /\ acc' = {}
    /\ UNCHANGED <<width, height, data, palette_rgb, dither_strength, buf,
                   out_idx, strength, x, y, result, nwrites>>
    /\ UNCHANGED <<bvars, lvars>>

----------------------------------------------------------------------------
\* Properties of the quantizer (specification Spec).

\* The raster index of pixel (vx, vy).
PixelIndex(vx, vy) == vy * width + vx

\* The working colour of pixel p in buffer b.
ColorAt(b, p) == << b[p * 3], b[p * 3 + 1], b[p * 3 + 2] >>

\* The working buffer as Setup leaves it: the input colours, undiffused.
OriginalBuf == [k \in 0..(px_count * 3 - 1) |-> data[(k \div 3) + 1][(k % 3) + 1] * Scale]

\* Pixels whose loop body has run.
Visited == { p \in 0..(px_count - 1) : p < PixelIndex(x, y) }

ValidPalette == Len(palette_rgb) >= 1 /\ Len(palette_rgb) <= PaletteSlots

\* C1: with a palette of 1..256 colours, every cell of the index buffer
\* holds an index 0..N-1, during the scan and in the returned image, and the
\* buffer has exactly width * height cells.
C1_IndexInRange ==
    (ValidPalette /\ pc \in {"scan", "returned"}) =>
        /\ DOMAIN out_idx = 0..(px_count - 1)
        /\ \A p \in 0..(px_count - 1) : out_idx[p] \in 0..(Len(palette_rgb) - 1)
        /\ pc = "returned" => result.data = out_idx

\* A dithered 2x2 image has been returned whose cells use the lowest and the
\* highest index of the palette.
C1_Witness ==
    /\ pc = "returned"
    /\ width = 2
    /\ height = 2
    /\ ValidPalette
    /\ strength[1] > 0
    /\ \E p, q \in 0..3 : result.data[p] = 0 /\ result.data[q] = Len(palette_rgb) - 1 /\ q # 0

\* C2: with strength <= 0 the working buffer stays the copy of the input,
\* and every visited pixel's index is nearest_palette_index of its original
\* colour; the 2x2 example of the specification gives [0, 1, 0, 1].
C2_NoDiffusionAtZero ==
    (ValidPalette /\ pc \in {"scan", "returned"} /\ dither_strength[1] <= 0) =>
        /\ buf = OriginalBuf
        /\ \A p \in Visited :
              out_idx[p] = nearest_palette_index(data[p + 1][1] * Scale, data[p + 1][2] * Scale,
                                                 data[p + 1][3] * Scale, palette_rgb)
        /\ ( /\ pc = "returned"
             /\ width = 2
             /\ height = 2
             /\ data = << <<10, 10, 10>>, <<250, 250, 250>>, <<10, 10, 10>>, <<250, 250, 250>> >>
             /\ palette_rgb = BlackWhite )
           => result.data = [p \in 0..3 |-> p % 2]

\* The 2x2 example has been quantized with a negative strength, and a
\* visited pixel would have left an error to diffuse.
C2_Witness ==
    /\ pc = "returned"
    /\ dither_strength[1] < 0
    /\ width = 2
    /\ height = 2
    /\ data = << <<10, 10, 10>>, <<250, 250, 250>>, <<10, 10, 10>>, <<250, 250, 250>> >>
    /\ palette_rgb = BlackWhite
    /\ result.data = [p \in 0..3 |-> p % 2]
    /\ buf[0] # palette_rgb[result.data[0] + 1][1] * Scale

\* dist(i) < dist(j) and dist(i) = dist(j) for the entries i, j (0-based) of
\* pal and the scaled colour c.
Closer(c, pal, i, j) ==
    DistLess(Dist(c[1], c[2], c[3], pal[i + 1]), Dist(c[1], c[2], c[3], pal[j + 1]))
SameDist(c, pal, i, j) ==
    Dist(c[1], c[2], c[3], pal[i + 1]) = Dist(c[1], c[2], c[3], pal[j + 1])

\* C3: the index nearest_palette_index returns for a colour and a non-empty
\* palette has minimal squared distance over the palette, and every entry
\* before it is strictly farther (the lowest minimal index is returned).
C3_NearestIsFirstMinimum ==
    (lk_pc = "done" /\ Len(lk_palette) >= 1) =>
        /\ lk_idx \in 0..(Len(lk_palette) - 1)
        /\ \A j \in 0..(Len(lk_palette) - 1) : ~Closer(lk_color, lk_palette, j, lk_idx)
        /\ \A j \in 0..(lk_idx - 1) : Closer(lk_color, lk_palette, lk_idx, j)

\* A lookup has been decided by the tie-break: a later entry of another
\* colour lies exactly as near as the entry returned.
C3_Witness ==
    /\ lk_pc = "done"
    /\ \E j \in (lk_idx + 1)..(Len(lk_palette) - 1) :
          /\ lk_palette[j + 1] # lk_palette[lk_idx + 1]
          /\ SameDist(lk_color, lk_palette, j, lk_idx)

\* The four diffusion targets of pixel (vx, vy): <<x, y, weight * 16>>.
Targets(vx, vy) ==
    { <<vx + 1, vy, 7>>, <<vx - 1, vy + 1, 3>>, <<vx, vy + 1, 5>>, <<vx + 1, vy + 1, 1>> }

InImage(t) == t[1] >= 0 /\ t[1] < width /\ t[2] >= 0 /\ t[2] < height

\* 16 times the weight pixel q receives from (vx, vy): that of the target
\* inside the image whose coordinates are q's, or 0.
WeightAt(q, vx, vy) ==
    LET m == { t \in Targets(vx, vy) : InImage(t) /\ PixelIndex(t[1], t[2]) = q }
    IN  IF m = {} THEN 0 ELSE (CHOOSE t \in m : TRUE)[3]

\* clamp(v + s * e * wn/16, 0, 255) on scaled values, s = <<num, den>>.
Diffused(v, e, s, wn) ==
    LET w == v + ExactDiv(ExactDiv(e, 16) * wn * s[1], s[2])
    IN  IF w < 0 THEN 0 ELSE IF w > 255 * Scale THEN 255 * Scale ELSE w

\* The colour pixel q must hold after the visit of (vx, vy) chose palette
\* entry idx with strength s: diffused if q is a target inside the image,
\* unchanged otherwise.
ColorAfterVisit(q, vx, vy, idx, s) ==
    LET wn == WeightAt(q, vx, vy)
        pi == PixelIndex(vx, vy)
    IN  IF wn = 0 THEN ColorAt(buf, q)
        ELSE [c \in 1..3 |->
                Diffused(buf[q * 3 + c - 1],
                         buf[pi * 3 + c - 1] - palette_rgb[idx + 1][c] * Scale, s, wn)]

\* The step is one body of the inner loop.
IsVisit == pc = "scan" /\ y < height /\ x < width /\ Len(palette_rgb) >= 1 /\ x' = x + 1

\* C4: no step addresses a position outside the buffer, and a target outside
\* the image changes nothing: the cell its flattened position
\* y * width + x would name holds afterwards what the targets inside the
\* image alone give it.
C4_BorderTargetsDropped ==
    [][ /\ acc' \subseteq 0..(px_count * 3 - 1)
        /\ DOMAIN buf' = 0..(px_count * 3 - 1)
        /\ IsVisit =>
              \A t \in Targets(x, y) :
                  (~InImage(t) /\ PixelIndex(t[1], t[2]) \in 0..(px_count - 1)) =>
                      ColorAt(buf', PixelIndex(t[1], t[2]))
                          = ColorAfterVisit(PixelIndex(t[1], t[2]), x, y,
                                            out_idx'[PixelIndex(x, y)], strength)
      ]_vars

\* The last pixel of the first row of a 2x2 image has been visited with an
\* error to diffuse in some channel: its right-hand target (2, 0) flattens to
\* the first pixel of the next row.
C4_Witness ==
    /\ pc = "scan"
    /\ width = 2
    /\ height = 2
    /\ x = 2
    /\ y = 0
    /\ strength[1] > 0
    /\ Len(palette_rgb) >= 1
    /\ \E c \in 1..3 : buf[3 + c - 1] # palette_rgb[out_idx[1] + 1][c] * Scale
    /\ acc # {}

\* nwrites before any cell is assigned.
Zeros == [p \in 0..(px_count - 1) |-> 0]

\* C8: a strength below 0 gives the index buffer the scan gives with
\* strength 0, a strength above 1 the one it gives with strength 1.
C8_StrengthClamped ==
    (pc = "returned" /\ ValidPalette) =>
        /\ dither_strength[1] < 0 => result.data = RunScan(OriginalBuf, Zeros, 0, <<0, 1>>)
        /\ dither_strength[1] > dither_strength[2] =>
              result.data = RunScan(OriginalBuf, Zeros, 0, <<1, 1>>)

\* A call with a strength above 1 has returned an image that differs from
\* the undithered one.
C8_Witness ==
    /\ pc = "returned"
    /\ ValidPalette
    /\ dither_strength[1] > dither_strength[2]
    /\ result.data # RunScan(OriginalBuf, Zeros, 0, <<0, 1>>)

\* C9: the loop bodies run in raster order; the body at pixel pi leaves the
\* working colour of pi and of every earlier pixel and the index of every
\* other pixel as they were, assigns out_idx[pi] for the first and only
\* time, to nearest_palette_index of pi's working colour; no other step
\* changes either buffer, and at the return every cell was assigned once.
C9_SingleForwardPass ==
    [][ pc = "scan" =>
          /\ IsVisit =>
                LET pi == PixelIndex(x, y)
                IN  /\ PixelIndex(x', y') = pi + 1
                    /\ \A q \in 0..pi : ColorAt(buf', q) = ColorAt(buf, q)
                    /\ \A q \in 0..(px_count - 1) : q # pi => out_idx'[q] = out_idx[q]
                    /\ out_idx'[pi] = nearest_palette_index(buf[pi * 3], buf[pi * 3 + 1],
                                                            buf[pi * 3 + 2], palette_rgb)
                    /\ nwrites[pi] = 0
                    /\ nwrites' = [nwrites EXCEPT ![pi] = 1]
          /\ ~IsVisit =>
                /\ buf' = buf
                /\ out_idx' = out_idx
                /\ nwrites' = nwrites
                /\ PixelIndex(x', y') = PixelIndex(x, y)
          /\ pc' = "returned" =>
                /\ \A p \in 0..(px_count - 1) : nwrites[p] = 1
                /\ result'.data = out_idx
      ]_vars

\* A dithered 2x2 scan has returned: the error of the first pixel changed the
\* colour a later pixel was looked up with.
C9_Witness ==
    /\ pc = "returned"
    /\ width = 2
    /\ height = 2
    /\ ValidPalette
    /\ strength[1] > 0
    /\ \A p \in 0..3 : nwrites[p] = 1
    /\ \E p \in 1..3 : ColorAt(buf, p) # ColorAt(OriginalBuf, p)

\* C10: with 0 < strength <= 1 the visit of (x, y) sets every channel of each
\* neighbour inside the image to clamp(current + strength * e * w, 0, 255),
\* w = 7/16, 3/16, 5/16, 1/16 for right, lower left, below, lower right, and
\* leaves every other cell unchanged; every channel stays within [0, 255]
\* after every step, whatever the strength.
C10_WeightedClampedDiffusion ==
    [][ /\ \A k \in DOMAIN buf' : buf'[k] >= 0 /\ buf'[k] <= 255 * Scale
        /\ ( /\ IsVisit
             /\ dither_strength[1] > 0
             /\ dither_strength[1] <= dither_strength[2] ) =>
              \A q \in 0..(px_count - 1) :
                  ColorAt(buf', q)
                      = ColorAfterVisit(q, x, y, out_idx'[PixelIndex(x, y)], dither_strength)
      ]_vars

\* With strength 1/2 the first pixel of a 2x2 image has pushed a channel of
\* its right neighbour against the upper clamp.
C10_Witness ==
    /\ pc = "scan"
    /\ width = 2
    /\ height = 2
    /\ x = 1
    /\ y = 0
    /\ dither_strength = <<1, 2>>
    /\ Len(palette_rgb) >= 1
    /\ \E c \in 1..3 : buf[3 + c - 1] = 255 * Scale /\ OriginalBuf[3 + c - 1] < 255 * Scale

\* The call has ended, by return or by exception.
Ended == pc \in {"returned", "raised"}

\* C5: a call with an empty palette or one of more than 256 entries ends
\* with the InvalidPalette error and produces no index image (stated for
\* images of positive area, where no other error is in question).
C5_InvalidPaletteRejected ==
    ( /\ Ended
      /\ width >= 1
      /\ height >= 1
      /\ (Len(palette_rgb) = 0 \/ Len(palette_rgb) > PaletteSlots) ) =>
        (err = "InvalidPalette" /\ result = NoImage)

\* C6: the call ends with the EmptyImage error exactly when the width or the
\* height is 0, and then returns no index image.
C6_EmptyImageRejected ==
    Ended =>
        /\ (err = "EmptyImage") <=> (width = 0 \/ height = 0)
        /\ err = "EmptyImage" => result = NoImage

----------------------------------------------------------------------------
\* ImageConverter.process_images over one listing of the source directory.
\* A directory entry: whether its name starts with '.', the text after its
\* last '.', whether it is a regular file, and whether preprocess_image
\* gets through it (Image.open, the filters and save raise nothing).

valid_extensions == { "jpg", "jpeg", "png", "bmp", "gif", "tiff" }

\* str.lower() on the extensions explored.
Lower(ext) ==
    CASE ext = "JPG" -> "jpg"
      [] ext = "Png" -> "png"
      [] OTHER -> ext

FileKinds ==
    { [name |-> "a.JPG",      dot |-> FALSE, ext |-> "JPG", isfile |-> TRUE,  loads |-> TRUE],
      [name |-> "b.png",      dot |-> FALSE, ext |-> "png", isfile |-> TRUE,  loads |-> TRUE],
      [name |-> "bad.gif",    dot |-> FALSE, ext |-> "gif", isfile |-> TRUE,  loads |-> FALSE],
      [name |-> ".thumb.jpg", dot |-> TRUE,  ext |-> "jpg", isfile |-> TRUE,  loads |-> TRUE],
      [name |-> "notes.txt",  dot |-> FALSE, ext |-> "txt", isfile |-> TRUE,  loads |-> TRUE],
      [name |-> "album.Png",  dot |-> FALSE, ext |-> "Png", isfile |-> FALSE, loads |-> FALSE] }

\* Listings: sequences of distinct entries.
Listings ==
    UNION { { l \in [1..n -> FileKinds] : \A i, j \in 1..n : i # j => l[i] # l[j] }
            : n \in 0..MaxFiles }

\* Line 140: img.startswith('.')
Hidden(e) == e.dot

\* Line 146: os.path.isfile(img_path) and img.lower().endswith(valid_extensions)
Qualifies(e) == e.isfile /\ Lower(e.ext) \in valid_extensions

QuantUnchanged == UNCHANGED <<qvars, lvars>>

\* Lines 140-141: a hidden entry is skipped.
SkipHidden ==
    /\ batch_pc = "loop"
    /\ pos < Len(entries)
    /\ Hidden(entries[pos + 1])
    /\ pos' = pos + 1
    /\ UNCHANGED <<entries, attempted, written, batch_pc>>
    /\ QuantUnchanged

\* Lines 143-146: an entry that is no image file is reported and passed.
SkipOther ==
    /\ batch_pc = "loop"
    /\ pos < Len(entries)
    /\ ~Hidden(entries[pos + 1])
    /\ ~Qualifies(entries[pos + 1])
    /\ pos' = pos + 1
    /\ UNCHANGED <<entries, attempted, written, batch_pc>>
    /\ QuantUnchanged

\* Lines 147-148: preprocess_image runs to its save and returns.
Preprocess ==
    /\ batch_pc = "loop"
    /\ pos < Len(entries)
    /\ ~Hidden(entries[pos + 1])
    /\ Qualifies(entries[pos + 1])
    /\ entries[pos + 1].loads
    /\ attempted' = attempted \cup {pos + 1}
    /\ written' = written \cup {pos + 1}
    /\ pos' = pos + 1
    /\ UNCHANGED <<entries, batch_pc>>
    /\ QuantUnchanged

\* Lines 147-148: preprocess_image raises; process_images has no handler,
\* so the exception leaves the for loop and the method.
PreprocessRaise ==
    /\ batch_pc = "loop"
    /\ pos < Len(entries)
    /\ ~Hidden(entries[pos + 1])
    /\ Qualifies(entries[pos + 1])
    /\ ~entries[pos + 1].loads
    /\ attempted' = attempted \cup {pos + 1}
    /\ batch_pc' = "raised"
    /\ UNCHANGED <<entries, pos, written>>
    /\ QuantUnchanged

\* The listing is exhausted: process_images returns.
BatchReturn ==
    /\ batch_pc = "loop"
    /\ pos >= Len(entries)
    /\ batch_pc' = "returned"
    /\ UNCHANGED <<entries, pos, attempted, written>>
    /\ QuantUnchanged

----------------------------------------------------------------------------
\* Property of the batch driver (specification SpecBatch).

\* C7: whatever one file's preprocessing does, once process_images has
\* ended preprocess_image was started on every qualifying entry of the
\* listing.
C7_BatchSurvivesFailure ==
    batch_pc # "loop" =>
        \A i \in 1..Len(entries) :
            (~Hidden(entries[i]) /\ Qualifies(entries[i])) => i \in attempted

----------------------------------------------------------------------------
\* A lone call of nearest_palette_index (specification SpecLookup).

\* Channel values explored, scaled: 0, 127, 127.5, 128 and 255; 127.5 lies
\* midway between 0 and 255.
LookupLevels == { 0, 127 * Scale, ExactDiv(255 * Scale, 2), 128 * Scale, 255 * Scale }

LookupPalettes == UsablePalettes \cup { OversizePalette }

\* The call returns.
Lookup ==
    /\ lk_pc = "call"
    /\ lk_idx' = nearest_palette_index(lk_color[1], lk_color[2], lk_color[3], lk_palette)
    /\ lk_pc' = "done"
    /\ UNCHANGED <<lk_color, lk_palette>>
    /\ UNCHANGED <<qvars, bvars>>

\* No lone lookup is running.
LookupIdle ==
    /\ lk_color = <<0, 0, 0>>
    /\ lk_palette = PALETTE
    /\ lk_idx = 0
    /\ lk_pc = "idle"

----------------------------------------------------------------------------
\* Specifications.

\* No batch is running.
BatchIdle ==
    /\ entries = << >>
    /\ pos = 0
    /\ attempted = {}
    /\ written = {}
    /\ batch_pc = "returned"

\* No quantizer call is running.
QuantIdle ==
    /\ width = 0
    /\ height = 0
    /\ data = << >>
    /\ palette_rgb = PALETTE
    /\ dither_strength = <<1, 1>>
    /\ pc = "idle"
    /\ buf = << >>
    /\ out_idx = << >>
    /\ nwrites = << >>
    /\ strength = <<0, 1>>
    /\ x = 0
    /\ y = 0
    /\ err = "none"
    /\ result = NoImage
    /\ acc = {}

\* One call of quantize_with_dither_strength on any explored input.
Init ==
    /\ \E in \in Inputs :
          /\ width = in[1].size[1]
          /\ height = in[1].size[2]
          /\ data = in[1].data
          /\ palette_rgb = in[2]
    /\ dither_strength \in Strengths
    /\ pc = "entry"
    /\ buf = << >>
    /\ out_idx = << >>
    /\ nwrites = << >>
    /\ strength = <<0, 1>>
    /\ x = 0
    /\ y = 0
    /\ err = "none"
    /\ result = NoImage
    /\ acc = {}
    /\ BatchIdle
    /\ LookupIdle

Next ==
    \/ Setup
    \/ Visit
    \/ VisitRaise
    \/ NextRow
    \/ Finish
    \/ FinishLibraryError

Spec == Init /\ [][Next]_vars

\* One call of process_images on any explored listing.
InitBatch ==
    /\ entries \in Listings
    /\ pos = 0
    /\ attempted = {}
    /\ written = {}
    /\ batch_pc = "loop"
    /\ QuantIdle
    /\ LookupIdle

NextBatch ==
    \/ SkipHidden
    \/ SkipOther
    \/ Preprocess
    \/ PreprocessRaise
    \/ BatchReturn

\* The loop is sequential code that runs until it returns or raises.
SpecBatch == InitBatch /\ [][NextBatch]_vars /\ WF_vars(NextBatch)

\* One call of nearest_palette_index on any explored colour and palette.
InitLookup ==
    /\ lk_color \in LookupLevels \X LookupLevels \X LookupLevels
    /\ lk_palette \in LookupPalettes
    /\ lk_idx = 0
    /\ lk_pc = "call"
    /\ QuantIdle
    /\ BatchIdle

NextLookup == Lookup

SpecLookup == InitLookup /\ [][NextLookup]_vars

====
